---- MODULE Spec2Model ----
(***************************************************************************)
(* Download queue of Yummy-Yt-Dlp: the retry_download and update_settings  *)
(* commands (src-tauri/src/ytdlp/commands.rs), the admission gate          *)
(* (DownloadManager) they call, the job store rows they update and the     *)
(* supervisory tasks they spawn.                                           *)
(*                                                                         *)
(* Every call on the store or on the gate is one atomic step (each is a    *)
(* lock-protected call); a command is a sequence of such steps, and other  *)
(* commands and tasks of the multi-threaded runtime interleave between     *)
(* them.                                                                   *)
(***************************************************************************)
EXTENDS Integers, Sequences, FiniteSets, Bags, TLC

\* ---------------------------------------------------------------- bounds
MaxJobs == 3
MaxCap == 2
MaxRetryCalls == 2
MaxSettings == 1
MaxPanics == 1
MaxCalls == 3
MaxEnvChanges == 1
MaxLogs == 4
MaxAgeDays == 2
MaxQueried == 3

JobIds == 1..MaxJobs

\* ------------------------------------------------------------ data model
\* DownloadStatus: the five values of the job state machine; "None" is an id
\* with no row in the store.
Terminal == {"Completed", "Failed", "Cancelled"}
DownloadStatus == {"Pending", "Downloading"} \cup Terminal

VARIABLES
  status,      \* job id -> stored status ("None": no such row)
  nextId,      \* next id the store assigns
  held,        \* DownloadManager: slots held
  capacity,    \* DownloadManager: max_concurrent
  sups,        \* bag of supervisory tasks [job, pc, via, tok]
  retries,     \* bag of retry_download calls in flight [job, pc, rearm]
  exiting,     \* cancel_all has been called: the application is quitting
  atCancel,    \* history: the jobs stored as Downloading when it was called
  gone,        \* history: the ids of deleted rows when the last job was inserted
  onlySubmits, \* history: nothing but submit has happened so far
  panics,      \* history: supervisors that have faulted so far
  retryCalls,  \* history: retry_download calls made so far
  settingsCalls, \* history: update_settings calls made so far
  ev,          \* two runs of the queue under different observers
  res,         \* resolve_ytdlp_path: RESOLVED_YTDLP, its calls, the binaries
  logdb        \* LogDatabase: the logs table and what the last call returned

vars == <<status, nextId, held, capacity, sups, retries, exiting, atCancel, gone,
          onlySubmits, panics, retryCalls, settingsCalls, ev, res, logdb>>

\* The variables of the queue.
queue == <<status, nextId, held, capacity, sups, retries, exiting, atCancel,
           gone, onlySubmits, panics, retryCalls, settingsCalls>>

\* The variables the commands of the queue never touch.
side == <<ev, res, logdb>>

\* The history counters, which only bound the model.
hist == <<panics, retryCalls, settingsCalls>>

\* ---------------------------------------------------------------- helpers
One(x) == SetToBag({x})

Min(S) == CHOOSE x \in S : \A y \in S : x <= y

Rows(st) == {j \in JobIds : st[j] # "None"}

WithStatus(st, s) == {j \in JobIds : st[j] = s}

\* Job Store: update_status(id, status). A row that does not exist stays
\* absent (an UPDATE that matches no row).
UpdateStatus(st, j, s) ==
  IF st[j] = "None" THEN st ELSE [st EXCEPT ![j] = s]

\* Admission gate: try_acquire succeeds iff held < capacity.
CanAcquire(h, cap) == h < cap

\* Mutant: release() decrements whatever the count is.
Release_Unclamped(h) == h - 1

\* Admission gate: release() decrements by one, never below zero.
Release(h) == IF h > 0 THEN h - 1 ELSE 0

\* A supervisory task: log is what it has done so far of its job's terminal
\* transition.
Sup(j, via) ==
  [job |-> j, pc |-> "running", via |-> via, tok |-> FALSE, log |-> <<>>]

\* admit_next / process_next_pending: while the gate accepts and a Pending
\* job exists, claim the oldest one (lowest id: ids follow insertion order),
\* mark it Downloading, take the slot and spawn its supervisor.
RECURSIVE AdmitNext(_, _, _, _)
AdmitNext(st, h, cap, sp) ==
  IF CanAcquire(h, cap) /\ WithStatus(st, "Pending") # {}
  THEN LET j == Min(WithStatus(st, "Pending"))
       IN AdmitNext([st EXCEPT ![j] = "Downloading"], h + 1, cap,
                    sp (+) One(Sup(j, "sched")))
  ELSE [st |-> st, h |-> h, sp |-> sp]

\* ------------------------------------------------------------------- Init
\* The queue at application start.
QueueInit ==
  /\ status = [j \in JobIds |-> "None"]
  /\ nextId = 1
  /\ held = 0
  /\ capacity \in 1..MaxCap
  /\ sups = EmptyBag
  /\ retries = EmptyBag
  /\ onlySubmits = TRUE
  /\ panics = 0
  /\ exiting = FALSE
  /\ atCancel = {}
  /\ gone = {}
  /\ retryCalls = 0
  /\ settingsCalls = 0

\* One run of the queue: stored statuses, held slots and the bag of
\* supervisors at work, each with the event sink it sends to.
NoRun == [st |-> [j \in JobIds |-> "None"], h |-> 0, sp |-> EmptyBag]

\* Two runs that are given the same operations and subprocess outcomes: in
\* run A an observer listens on every channel, in run B the channels are in
\* any state. lost tells that a send of run B has failed.
NoRuns == [cap |-> 1, next |-> 1, lost |-> FALSE, A |-> NoRun, B |-> NoRun]

\* resolve_ytdlp_path before its first call, with no binary installed:
\* RESOLVED_YTDLP is empty (cell), nobody initialises it (busy), no call has
\* been made; exists are the local paths that exist, works the paths whose
\* binary answers the version probe.
\* LogDatabase::new: an empty logs table whose AUTOINCREMENT sequence is at
\* zero; ret is what the last call on the database returned.
NoLogs == [rows |-> {}, seq |-> 0, ret |-> [op |-> "none"]]

NoCall == [pc |-> "idle", dir |-> "", out |-> <<>>]

NoCalls ==
  [cell |-> <<>>, busy |-> 0, calls |-> [c \in 1..MaxCalls |-> NoCall],
   exists |-> {}, works |-> {}, changes |-> 0]

Init ==
  /\ QueueInit
  /\ ev = NoRuns
  /\ res = NoCalls
  /\ logdb = NoLogs

\* A retry_download call in flight is [job, pc, rearm]: pc is the line it
\* stands before, or the result it is about to hand to its caller; rearm
\* (history) tells that line 53 found the row Failed or Cancelled.
Results == {"Ok", "NotFound", "StoreError"}

\* A call that has its result hands it to its caller before anything else
\* happens (the result of a call is no state of the program): Idle guards
\* every other step.
Idle == \A r \in BagToSet(retries) : r.pc \notin Results

\* ----------------------------------------------------------------- submit
\* Mutant: submit only enqueues and leaves admission to a later sweep.
Submit_EnqueueOnly ==
  /\ Idle
  /\ ~exiting
  /\ nextId <= MaxJobs
  /\ status' = [status EXCEPT ![nextId] = "Pending"]
  /\ nextId' = nextId + 1
  /\ gone' = {j \in 1..(nextId - 1) : status[j] = "None"}
  /\ UNCHANGED <<held, sups, capacity, retries, exiting, atCancel, onlySubmits, hist, side>>

\* Mutant: the store hands out the lowest id that has no row.
NewId_LowestFree(st, n) == Min({j \in JobIds : st[j] = "None"})

\* Job Store: insert assigns the next id of a counter that only grows.
NewId(st, n) == n

\* submit(params): insert the job as Pending, then attempt admission.
Submit ==
  /\ Idle
  /\ ~exiting
  /\ nextId <= MaxJobs
  /\ LET a == AdmitNext([status EXCEPT ![NewId(status, nextId)] = "Pending"],
                        held, capacity, sups)
     IN /\ status' = a.st
        /\ held' = a.h
        /\ sups' = a.sp
  /\ nextId' = nextId + 1
  /\ gone' = {j \in 1..(nextId - 1) : status[j] = "None"}
  /\ UNCHANGED <<capacity, retries, exiting, atCancel, onlySubmits, hist, side>>

\* --------------------------------------------------------- retry_download
Moves(r, pc) == (retries (-) One(r)) (+) One([r EXCEPT !.pc = pc])

\* Mutant: the missing row is not turned into an error.
RetryGet_NoLookup(j) ==
  /\ Idle
  /\ ~exiting
  /\ retryCalls < MaxRetryCalls
  /\ retryCalls' = retryCalls + 1
  /\ retries' = retries (+) One([job |-> j, rearm |-> FALSE, pc |-> "reset"])
  /\ onlySubmits' = FALSE
  /\ UNCHANGED <<status, nextId, held, capacity, sups, exiting, atCancel, gone, panics, settingsCalls, side>>

\* db.get_download(task_id)?.ok_or_else(not found)?
RetryGet(j) ==
  /\ Idle
  /\ ~exiting
  /\ retryCalls < MaxRetryCalls
  /\ retryCalls' = retryCalls + 1
  /\ retries' = retries (+)
       One([job |-> j, rearm |-> FALSE,
            pc |-> IF status[j] = "None" THEN "NotFound" ELSE "reset"])
  /\ onlySubmits' = FALSE
  /\ UNCHANGED <<status, nextId, held, capacity, sups, exiting, atCancel, gone, panics, settingsCalls, side>>

\* The same lookup failing in the store: `?` returns the error.
RetryGetFails(j) ==
  /\ Idle
  /\ ~exiting
  /\ retryCalls < MaxRetryCalls
  /\ retryCalls' = retryCalls + 1
  /\ retries' = retries (+) One([job |-> j, rearm |-> FALSE, pc |-> "StoreError"])
  /\ onlySubmits' = FALSE
  /\ UNCHANGED <<status, nextId, held, capacity, sups, exiting, atCancel, gone, panics, settingsCalls, side>>

\* Mutant: the reset to Pending is left out.
RetryResetStatus_Skip(st, j) == st

\* The status line 53 stores: Pending, whatever the row held before.
RetryResetStatus(st, j) == UpdateStatus(st, j, "Pending")

\* db.update_download_status(task_id, Pending, None)?
RetryReset(r) ==
  /\ Idle
  /\ r.pc = "reset"
  /\ status' = RetryResetStatus(status, r.job)
  /\ retries' = (retries (-) One(r)) (+)
       One([r EXCEPT !.pc = "acquire",
                     !.rearm = status[r.job] \in {"Failed", "Cancelled"}])
  /\ UNCHANGED <<nextId, held, capacity, sups, exiting, atCancel, gone, onlySubmits, hist, side>>

\* The same call failing: `?` returns the error to the caller.
RetryResetFails(r) ==
  /\ Idle
  /\ r.pc = "reset"
  /\ retries' = Moves(r, "StoreError")
  /\ UNCHANGED <<status, nextId, held, capacity, sups, exiting, atCancel, gone, onlySubmits, hist, side>>

\* Mutant: the answer of try_acquire is ignored.
RetryStarts_Always(h, cap) == TRUE

\* Whether the call goes on to start the download: what try_acquire answers.
RetryStarts(h, cap) == CanAcquire(h, cap)

\* if manager.try_acquire() { ... } ; Ok(())
RetryAcquire(r) ==
  /\ Idle
  /\ r.pc = "acquire"
  /\ IF RetryStarts(held, capacity)
     THEN /\ held' = held + 1
          /\ retries' = Moves(r, "mark")
     ELSE /\ held' = held
          /\ retries' = Moves(r, "Ok")
  /\ UNCHANGED <<status, nextId, capacity, sups, exiting, atCancel, gone, onlySubmits, hist, side>>

\* db.update_download_status(task_id, Downloading, None)?; tokio::spawn(..); Ok(())
RetryMark(r) ==
  /\ Idle
  /\ r.pc = "mark"
  /\ status' = UpdateStatus(status, r.job, "Downloading")
  /\ sups' = sups (+) One(Sup(r.job, "retry"))
  /\ retries' = Moves(r, "Ok")
  /\ UNCHANGED <<nextId, held, capacity, exiting, atCancel, gone, onlySubmits, hist, side>>

\* The same call failing after try_acquire succeeded: `?` returns at once.
RetryMarkFails(r) ==
  /\ Idle
  /\ r.pc = "mark"
  /\ retries' = Moves(r, "StoreError")
  /\ UNCHANGED <<status, nextId, held, capacity, sups, exiting, atCancel, gone, onlySubmits, hist, side>>

\* The caller has its result.
RetryReturn(r) ==
  /\ r.pc \in Results
  /\ retries' = retries (-) One(r)
  /\ UNCHANGED <<status, nextId, held, capacity, sups, exiting, atCancel, gone, onlySubmits, hist, side>>

\* ------------------------------------------------------ supervisory tasks
\* The terminal outcomes a running supervisor can reach: Cancelled once its
\* cancellation token is signalled, else the subprocess's exit decides.
Outcomes(s) == IF s.tok THEN {"Cancelled"} ELSE {"Completed", "Failed"}

\* Terminal transition of execute_download: persist the final status, release
\* the slot, emit the terminal event, call admit_next; the task ends.
SupFinish(s) ==
  /\ Idle
  /\ s.pc = "running"
  /\ \E o \in Outcomes(s) :
       LET a == AdmitNext(UpdateStatus(status, s.job, o), Release(held),
                          capacity, sups (-) One(s))
       IN /\ status' = a.st
          /\ held' = a.h
          /\ sups' = a.sp
  /\ onlySubmits' = FALSE
  /\ UNCHANGED <<nextId, capacity, retries, exiting, atCancel, gone, hist, side>>

\* How far a terminal transition can have got when the supervising logic
\* faults: nowhere, past the persist, or past the release as well.
FaultPoints == {"running", "persisted", "released"}

\* The four actions of a terminal transition, in the order execute_download
\* performs them.
TerminalActions == <<"persist", "release", "emit", "admit">>

\* Those of them a transition has performed when it faults at fault point at.
DoneAt(at) ==
  CASE at = "running" -> <<>>
    [] at = "persisted" -> <<"persist">>
    [] at = "released" -> <<"persist", "release">>

\* What the recovery boundary of a scheduler-spawned supervisor performs.
BoundaryActions == TerminalActions

\* What the guard of lines 66-71 performs after eprintln!: manager.release()
\* and process_next_pending_public; it stores no status and emits no event.
GuardActions == <<"release", "admit">>

\* The supervising logic terminates abnormally at fault point at. A
\* supervisor the scheduler spawned runs in the scheduler's own recovery
\* boundary, which runs what is left of the terminal transition, so there
\* only a fault before the persist differs from no fault. The task
\* retry_download spawns wraps execute_download_public whole, so a fault
\* anywhere in it reaches the guard of lines 66-71.
SupPanic(s, at) ==
  /\ Idle
  /\ s.pc = "running"
  /\ s.via = "sched" => at = "running"
  /\ panics < MaxPanics
  /\ panics' = panics + 1
  /\ \E o \in Outcomes(s) :
       status' = IF at = "running" THEN status ELSE UpdateStatus(status, s.job, o)
  /\ held' = IF at = "released" THEN Release(held) ELSE held
  /\ sups' = (sups (-) One(s)) (+)
       One([s EXCEPT !.pc = "panicked", !.tok = FALSE, !.log = DoneAt(at)])
  /\ onlySubmits' = FALSE
  /\ UNCHANGED <<nextId, capacity, retries, exiting, atCancel, gone, retryCalls, settingsCalls, side>>

\* Recovery boundary of a supervisor the scheduler spawned: mark the job
\* Failed unless it is terminal already, release the slot, call admit_next.
BoundaryRecover(s) ==
  /\ Idle
  /\ s.via = "sched"
  /\ s.pc = "panicked"
  /\ LET st == IF status[s.job] \in Terminal THEN status
               ELSE UpdateStatus(status, s.job, "Failed")
         a == AdmitNext(st, Release(held), capacity, sups (-) One(s))
     IN /\ status' = a.st
        /\ held' = a.h
        /\ sups' = a.sp
  /\ UNCHANGED <<nextId, capacity, retries, exiting, atCancel, gone, onlySubmits, hist, side>>

\* What the guard of retry_download stores for the job: nothing.
GuardStatus(st, j) == st

\* Mutant: the guard does not release.
GuardHeld_Keeps(h) == h

\* The slot count after the guard's manager.release().
GuardHeld(h) == Release(h)

\* if let Err(e) = result { eprintln!(..); manager.release(); ...
GuardRelease(s) ==
  /\ Idle
  /\ s.via = "retry"
  /\ s.pc = "panicked"
  /\ status' = GuardStatus(status, s.job)
  /\ held' = GuardHeld(held)
  /\ sups' = (sups (-) One(s)) (+)
       One([s EXCEPT !.pc = "guard_released", !.log = Append(@, GuardActions[1])])
  /\ UNCHANGED <<nextId, capacity, retries, exiting, atCancel, gone, onlySubmits, hist, side>>

\* What process_next_pending_public(app_panic_guard) leaves behind.
GuardNext(st, h, cap, sp) == AdmitNext(st, h, cap, sp)

\* ... super::download::process_next_pending_public(app_panic_guard); }
GuardAdmit(s) ==
  /\ Idle
  /\ s.pc = "guard_released"
  /\ LET a == GuardNext(status, held, capacity, sups (-) One(s))
     IN /\ status' = a.st
        /\ held' = a.h
        /\ sups' = a.sp
  /\ UNCHANGED <<nextId, capacity, retries, exiting, atCancel, gone, onlySubmits, hist, side>>

\* ------------------------------------------------------------ cancel_all
\* The bag b with every running supervisor's cancellation token signalled.
RECURSIVE SignalFrom(_, _)
SignalFrom(S, b) ==
  IF S = {} THEN EmptyBag
  ELSE LET e == CHOOSE x \in S : TRUE
           e2 == IF e.pc = "running" THEN [e EXCEPT !.tok = TRUE] ELSE e
       IN (e2 :> CopiesIn(e, b)) (+) SignalFrom(S \ {e}, b)

\* Mutant: cancel_all gives every slot back itself.
CancelAll_Releases ==
  /\ Idle
  /\ ~exiting
  /\ exiting' = TRUE
  /\ atCancel' = WithStatus(status, "Downloading")
  /\ sups' = SignalFrom(BagToSet(sups), sups)
  /\ held' = 0
  /\ onlySubmits' = FALSE
  /\ UNCHANGED <<status, nextId, capacity, retries, gone, hist, side>>

\* "quit" of the tray menu, set_minimize_to_tray(minimize = false):
\* manager.cancel_all(); app.exit(0). cancel_all signals the tokens; it
\* releases no slot and stores nothing. The application takes no command
\* after that; the tasks in flight may still run.
CancelAll ==
  /\ Idle
  /\ ~exiting
  /\ exiting' = TRUE
  /\ atCancel' = WithStatus(status, "Downloading")
  /\ sups' = SignalFrom(BagToSet(sups), sups)
  /\ onlySubmits' = FALSE
  /\ UNCHANGED <<status, nextId, held, capacity, retries, gone, hist, side>>

\* -------------------------------------------------------- update_settings
\* Admission gate: set_capacity(n) stores the new capacity; it touches no
\* held slot and starts no job.
SetMaxConcurrent(cap, n) == n

\* The values settings.max_concurrent can take: an unsigned integer, zero
\* included.
Limits == 0..MaxCap

\* Mutant: lowering the limit takes the slots above it away.
UpdateSettings_Trims(n) ==
  /\ Idle
  /\ ~exiting
  /\ settingsCalls < MaxSettings
  /\ settingsCalls' = settingsCalls + 1
  /\ capacity' = n
  /\ held' = IF held > n THEN n ELSE held
  /\ onlySubmits' = FALSE
  /\ UNCHANGED <<status, nextId, sups, retries, exiting, atCancel, gone, panics, retryCalls, side>>

\* super::settings::update_settings(&app, &settings)?;
\* manager.set_max_concurrent(settings.max_concurrent); Ok(())
\* The command checks nothing about the value and calls nothing after the
\* gate has it.
UpdateSettings(n) ==
  /\ Idle
  /\ ~exiting
  /\ settingsCalls < MaxSettings
  /\ settingsCalls' = settingsCalls + 1
  /\ capacity' = SetMaxConcurrent(capacity, n)
  /\ onlySubmits' = FALSE
  /\ UNCHANGED <<status, nextId, held, sups, retries, exiting, atCancel, gone, panics, retryCalls, side>>

\* -------------------------------------------------------- clear_completed
\* Job Store: bulk deletion removes every Completed row.
ClearedRows(st) == [j \in JobIds |-> IF st[j] = "Completed" THEN "None" ELSE st[j]]

\* db.clear_completed()
ClearCompleted ==
  /\ Idle
  /\ ~exiting
  /\ WithStatus(status, "Completed") # {}
  /\ status' = ClearedRows(status)
  /\ onlySubmits' = FALSE
  /\ UNCHANGED <<nextId, held, capacity, sups, retries, exiting, atCancel, gone, hist, side>>

\* ------------------------------------------------------------------ Next
Next ==
  \/ Submit
  \/ \E j \in JobIds : RetryGet(j)
  \/ \E j \in JobIds : RetryGetFails(j)
  \/ \E r \in BagToSet(retries) : RetryReset(r)
  \/ \E r \in BagToSet(retries) : RetryResetFails(r)
  \/ \E r \in BagToSet(retries) : RetryAcquire(r)
  \/ \E r \in BagToSet(retries) : RetryMark(r)
  \/ \E r \in BagToSet(retries) : RetryMarkFails(r)
  \/ \E r \in BagToSet(retries) : RetryReturn(r)
  \/ \E s \in BagToSet(sups) : SupFinish(s)
  \/ \E s \in BagToSet(sups), at \in FaultPoints : SupPanic(s, at)
  \/ \E s \in BagToSet(sups) : BoundaryRecover(s)
  \/ \E s \in BagToSet(sups) : GuardRelease(s)
  \/ \E s \in BagToSet(sups) : GuardAdmit(s)
  \/ CancelAll
  \/ \E n \in Limits : UpdateSettings(n)

Spec == Init /\ [][Next]_vars

\* submit, retry and complete alone: no supervisor faults and the limit is
\* not changed.
NextCore ==
  \/ Submit
  \/ \E j \in JobIds : RetryGet(j)
  \/ \E j \in JobIds : RetryGetFails(j)
  \/ \E r \in BagToSet(retries) : RetryReset(r)
  \/ \E r \in BagToSet(retries) : RetryResetFails(r)
  \/ \E r \in BagToSet(retries) : RetryAcquire(r)
  \/ \E r \in BagToSet(retries) : RetryMark(r)
  \/ \E r \in BagToSet(retries) : RetryMarkFails(r)
  \/ \E r \in BagToSet(retries) : RetryReturn(r)
  \/ \E s \in BagToSet(sups) : SupFinish(s)
  \/ CancelAll

SpecCore == Init /\ [][NextCore]_vars

\* submit, retry, complete and the bulk deletion of completed jobs.
NextStore ==
  \/ Submit
  \/ \E j \in JobIds : RetryGet(j)
  \/ \E j \in JobIds : RetryGetFails(j)
  \/ \E r \in BagToSet(retries) : RetryReset(r)
  \/ \E r \in BagToSet(retries) : RetryResetFails(r)
  \/ \E r \in BagToSet(retries) : RetryAcquire(r)
  \/ \E r \in BagToSet(retries) : RetryMark(r)
  \/ \E r \in BagToSet(retries) : RetryMarkFails(r)
  \/ \E r \in BagToSet(retries) : RetryReturn(r)
  \/ \E s \in BagToSet(sups) : SupFinish(s)
  \/ ClearCompleted

SpecStore == Init /\ [][NextStore]_vars

\* --------------------------------------------------------- event delivery
\* The state of an event channel: an observer listens, the observer is gone,
\* or every send fails.
Sinks == {"attached", "detached", "failing"}

\* Whether a send on the sink reaches an observer.
Delivered(sink) == sink = "attached"

\* The stored statuses after a send: a send is fire-and-forget, its failure
\* changes nothing.
AfterSend(st, j, delivered) == st

\* Mutant: retry_download gives up when nobody listens on its channel.
RetryProceeds_NeedsObserver(ch) == ch = "attached"

\* let _ = on_event; the handler never reads the channel, whatever its state
\* it goes on.
RetryProceeds(ch) == TRUE

\* The sink of the task retry_download spawns: execute_download_public is
\* given app_clone and task_id, and the channel is dropped.
RetrySink(ch) == "none"

\* admit_next in one run; the supervisors it spawns send to sink.
EvAdmit(run, cap, sink) ==
  LET a == AdmitNext(run.st, run.h, cap, EmptyBag)
      new == WithStatus(a.st, "Downloading") \ WithStatus(run.st, "Downloading")
  IN [st |-> a.st, h |-> a.h,
      sp |-> run.sp (+)
               SetToBag({[job |-> j, via |-> "sched", sink |-> sink] : j \in new})]

\* submit in one run.
EvSubmitted(run, cap, id, sink) ==
  EvAdmit([run EXCEPT !.st[id] = "Pending"], cap, sink)

\* retry_download(task_id, on_event) in one run, lines 43-76.
EvRetried(run, cap, j, ch) ==
  IF run.st[j] = "None" \/ ~RetryProceeds(ch) THEN run
  ELSE LET st1 == RetryResetStatus(run.st, j)
       IN IF RetryStarts(run.h, cap)
          THEN [st |-> UpdateStatus(st1, j, "Downloading"),
                h |-> run.h + 1,
                sp |-> run.sp (+)
                  One([job |-> j, via |-> "retry", sink |-> RetrySink(ch)])]
          ELSE [run EXCEPT !.st = st1]

\* The terminal transition of supervisor s with outcome o in one run: persist,
\* release, send the terminal event, admit_next.
EvFinished(run, cap, s, o, sink) ==
  LET st1 == AfterSend(UpdateStatus(run.st, s.job, o), s.job, Delivered(s.sink))
  IN EvAdmit([st |-> st1, h |-> Release(run.h), sp |-> run.sp (-) One(s)],
             cap, sink)

InitEvents ==
  /\ QueueInit
  /\ capacity = 1
  /\ res = NoCalls
  /\ logdb = NoLogs
  /\ ev \in {[NoRuns EXCEPT !.cap = c] : c \in 1..MaxCap}

EvSubmit ==
  /\ ev.next <= MaxJobs
  /\ \E k \in Sinks :
       ev' = [ev EXCEPT !.next = @ + 1,
                        !.A = EvSubmitted(ev.A, ev.cap, ev.next, "attached"),
                        !.B = EvSubmitted(ev.B, ev.cap, ev.next, k)]
  /\ UNCHANGED <<queue, res, logdb>>

EvRetry(j) ==
  /\ \E k \in Sinks :
       ev' = [ev EXCEPT !.A = EvRetried(ev.A, ev.cap, j, "attached"),
                        !.B = EvRetried(ev.B, ev.cap, j, k)]
  /\ UNCHANGED <<queue, res, logdb>>

\* The same supervisor ends with the same outcome in both runs.
EvFinish ==
  /\ \E sA \in BagToSet(ev.A.sp), sB \in BagToSet(ev.B.sp),
        o \in {"Completed", "Failed"}, k \in Sinks :
       /\ sA.job = sB.job
       /\ sA.via = sB.via
       /\ ev' = [ev EXCEPT !.lost = @ \/ ~Delivered(sB.sink),
                           !.A = EvFinished(ev.A, ev.cap, sA, o, "attached"),
                           !.B = EvFinished(ev.B, ev.cap, sB, o, k)]
  /\ UNCHANGED <<queue, res, logdb>>

NextEvents ==
  \/ EvSubmit
  \/ \E j \in JobIds : EvRetry(j)
  \/ EvFinish

SpecEvents == InitEvents /\ [][NextEvents]_vars

\* ----------------------------------------------------- resolve_ytdlp_path
\* The directories callers pass as app_data_dir.
Dirs == {"d1", "d2"}

\* get_ytdlp_path: the binary under the binaries directory of app_data_dir.
GetYtdlpPath(d) == <<d, "binaries", "yt-dlp">>

\* PathBuf::from("yt-dlp"): the binary of the system PATH.
SystemPath == <<"yt-dlp">>

\* AppError::BinaryNotFound
BinaryNotFound == <<"BinaryNotFound">>

\* The binaries installed: a local binary can be absent, present and broken,
\* or present and working; a path that does not exist does not work.
Envs ==
  {e \in [exists : SUBSET {GetYtdlpPath(d) : d \in Dirs},
          works : SUBSET ({GetYtdlpPath(d) : d \in Dirs} \cup {SystemPath})] :
     (e.works \ {SystemPath}) \subseteq e.exists}

\* try_get_version(path).is_some(): the binary ran `--version` within five
\* seconds, exited with success and printed UTF-8.
TryGetVersion(p, wk) == p \in wk

\* Mutant: a local binary is taken as soon as it exists.
LocalAnswers_ExistsOnly(p, ex, wk) == p \in ex

\* local_path.exists() && try_get_version(&local_path).await.is_some()
LocalAnswers(p, ex, wk) == p \in ex /\ TryGetVersion(p, wk)

\* The call c of the record r ends with result out.
ResDone(r, c, out) ==
  [r EXCEPT !.calls[c] = [@ EXCEPT !.pc = "done", !.out = out]]

InitResolve ==
  /\ QueueInit
  /\ capacity = 1
  /\ ev = NoRuns
  /\ logdb = NoLogs
  /\ \E e \in Envs : res = [NoCalls EXCEPT !.exists = e.exists, !.works = e.works]

\* resolve_ytdlp_path(app_data_dir) is called: get_or_try_init returns the
\* value of an initialised cell at once, else the call queues for the permit.
ResCall(c, d) ==
  /\ res.calls[c].pc = "idle"
  /\ \A b \in 1..(c - 1) : res.calls[b].pc # "idle"
  /\ res' = IF res.cell # <<>>
            THEN ResDone([res EXCEPT !.calls[c].dir = d], c, res.cell)
            ELSE [res EXCEPT !.calls[c] = [@ EXCEPT !.pc = "wait", !.dir = d]]
  /\ UNCHANGED <<queue, ev, logdb>>

\* A queued call gets the permit and starts the closure, or finds the cell
\* initialised by the call that held the permit and returns its value.
ResAcquire(c) ==
  /\ res.calls[c].pc = "wait"
  /\ \/ /\ res.cell # <<>>
        /\ res' = ResDone(res, c, res.cell)
     \/ /\ res.cell = <<>>
        /\ res.busy = 0
        /\ res' = [res EXCEPT !.busy = c, !.calls[c].pc = "local"]
  /\ UNCHANGED <<queue, ev, logdb>>

\* Lines 32-37: the local binary, if it exists and answers the probe.
ResLocal(c) ==
  /\ res.calls[c].pc = "local"
  /\ LET p == GetYtdlpPath(res.calls[c].dir)
     IN res' = IF LocalAnswers(p, res.exists, res.works)
               THEN ResDone([res EXCEPT !.cell = p, !.busy = 0], c, p)
               ELSE [res EXCEPT !.calls[c].pc = "system"]
  /\ UNCHANGED <<queue, ev, logdb>>

\* Lines 38-43: the binary of the system PATH, else BinaryNotFound; an error
\* leaves the cell empty and gives the permit back.
ResSystem(c) ==
  /\ res.calls[c].pc = "system"
  /\ res' = IF TryGetVersion(SystemPath, res.works)
            THEN ResDone([res EXCEPT !.cell = SystemPath, !.busy = 0], c, SystemPath)
            ELSE ResDone([res EXCEPT !.busy = 0], c, BinaryNotFound)
  /\ UNCHANGED <<queue, ev, logdb>>

\* A binary is installed, removed or broken between two steps.
ResEnv ==
  /\ res.changes < MaxEnvChanges
  /\ \E e \in Envs :
       /\ <<e.exists, e.works>> # <<res.exists, res.works>>
       /\ res' = [res EXCEPT !.exists = e.exists, !.works = e.works,
                             !.changes = @ + 1]
  /\ UNCHANGED <<queue, ev, logdb>>

NextResolve ==
  \/ \E c \in 1..MaxCalls, d \in Dirs : ResCall(c, d)
  \/ \E c \in 1..MaxCalls : ResAcquire(c)
  \/ \E c \in 1..MaxCalls : ResLocal(c)
  \/ \E c \in 1..MaxCalls : ResSystem(c)
  \/ ResEnv

SpecResolve == InitResolve /\ [][NextResolve]_vars

\* ------------------------------------------------------------- LogDatabase
\* Milliseconds of a day, as line 247 writes them.
DayMs == 24 * 60 * 60 * 1000

\* Timestamps of entries (milliseconds): on, just before and between the
\* day boundaries the cutoffs fall on.
Timestamps == {0, DayMs - 1, DayMs, 2 * DayMs}

\* chrono::Utc::now().timestamp_millis() at the time of a cleanup.
Nows == {2 * DayMs, 3 * DayMs}

Levels == {"info", "error"}

\* Mutant: entries ranked by id alone.
Newer_ById(a, b) == a.id > b.id

\* ORDER BY timestamp DESC, id DESC: a comes before b.
Newer(a, b) ==
  \/ a.timestamp > b.timestamp
  \/ a.timestamp = b.timestamp /\ a.id > b.id

\* The rows of a SELECT .. ORDER BY timestamp DESC, id DESC, as a sequence.
RECURSIVE OrderBy(_)
OrderBy(rows) ==
  IF rows = {} THEN <<>>
  ELSE LET first == CHOOSE r \in rows : \A q \in rows \ {r} : Newer(r, q)
       IN <<first>> \o OrderBy(rows \ {first})

\* LIMIT n OFFSET off of an ordered result.
LimitOffset(s, n, off) ==
  SubSeq(s, off + 1, Min({off + n, Len(s)}))

\* insert_log: AUTOINCREMENT gives the id after the largest ever used.
InsertLog(ts, lv) ==
  /\ logdb.seq < MaxLogs
  /\ logdb' = [rows |-> logdb.rows \cup
                         {[id |-> logdb.seq + 1, timestamp |-> ts, level |-> lv]},
               seq |-> logdb.seq + 1,
               ret |-> [op |-> "insert", id |-> logdb.seq + 1]]
  /\ UNCHANGED <<queue, ev, res>>

\* cleanup_old_logs, lines 246-247: the age cutoff.
Cutoff(now, max_age_days) == now - max_age_days * DayMs

\* cleanup_old_logs, under the connection's mutex from start to end.
CleanupOldLogs(now, max_age_days, max_entries) ==
  LET cutoff == Cutoff(now, max_age_days)
      aged == {r \in logdb.rows : r.timestamp < cutoff}
      rows1 == logdb.rows \ aged
      count == Cardinality(rows1)
      kept == LimitOffset(OrderBy(rows1), max_entries, 0)
      keptIds == {kept[i].id : i \in 1..Len(kept)}
      excess == IF count > max_entries
                THEN {r \in rows1 : r.id \notin keptIds}
                ELSE {}
  IN /\ logdb' = [logdb EXCEPT
                    !.rows = rows1 \ excess,
                    !.ret = [op |-> "cleanup", cutoff |-> cutoff,
                             max_entries |-> max_entries,
                             deleted |-> Cardinality(aged),
                             total_deleted |-> Cardinality(aged) + Cardinality(excess)]]
     /\ UNCHANGED <<queue, ev, res>>

InitLogs ==
  /\ QueueInit
  /\ capacity = 1
  /\ ev = NoRuns
  /\ res = NoCalls
  /\ logdb = NoLogs

NextCleanup ==
  \/ \E ts \in Timestamps, lv \in Levels : InsertLog(ts, lv)
  \/ \E now \in Nows, d \in 0..MaxAgeDays, m \in 0..MaxLogs : CleanupOldLogs(now, d, m)

SpecCleanup == InitLogs /\ [][NextCleanup]_vars

\* A u32 as two 16-bit halves <<high, low>>, so that a product of two u32
\* is computed exactly.
Half == 2 ^ 16

\* The pages a caller asks for: the first ones, and 2^31 and 2^31 + 1.
Pages == {<<0, 0>>, <<0, 1>>, <<0, 2>>, <<Half \div 2, 0>>, <<Half \div 2, 1>>}

\* The page sizes a caller asks for.
PageSizes == {0, 2, 200, 500}

\* level: Option<&str> and since: Option<i64>, an option being a set of at
\* most one value.
LevelFilters == {{}, {"error"}}

SinceFilters == {{}, {DayMs - 1}}

\* Line 138 is compiled with overflow checks (the default of a debug build)
\* or without them (the default of a release build).
Builds == {"overflow-checks", "wrapping"}

\* page_size.clamp(1, 200)
Clamp(x, lo, hi) == IF x < lo THEN lo ELSE IF x > hi THEN hi ELSE x

\* page * page_size on u32, line 138: the low 32 bits of the product and
\* whether the product exceeded them. page_size is at most 200 here.
MulU32(page, page_size) ==
  LET low == page[2] * page_size
      high == page[1] * page_size + (low \div Half)
  IN [value |-> <<high % Half, low % Half>>, overflow |-> high >= Half]

\* The WHERE clause of lines 92-123, for the level and since conditions.
Matching(rows, level, since) ==
  {r \in rows : /\ \A l \in level : r.level = l
                /\ \A ts \in since : r.timestamp > ts}

\* LIMIT n OFFSET off with a u32 offset; a table has fewer than 2^16 rows.
LimitOffsetU32(s, n, off) ==
  IF off[1] # 0 THEN <<>> ELSE LimitOffset(s, n, off[2])

\* query_logs as get_logs calls it.
QueryLogs(page, page_size, level, since, build) ==
  LET size == Clamp(page_size, 1, 200)
      matching == Matching(logdb.rows, level, since)
      offset == MulU32(page, size)
      request == [page_size |-> page_size, level |-> level, since |-> since]
  IN /\ logdb' = [logdb EXCEPT !.ret =
          IF offset.overflow /\ build = "overflow-checks"
          THEN [op |-> "query", outcome |-> "panic", request |-> request,
                items |-> <<>>, total_count |-> 0,
                page |-> page, page_size |-> size]
          ELSE [op |-> "query", outcome |-> "ok", request |-> request,
                items |-> LimitOffsetU32(OrderBy(matching), size, offset.value),
                total_count |-> Cardinality(matching),
                page |-> page, page_size |-> size]]
     /\ UNCHANGED <<queue, ev, res>>

NextQuery ==
  \/ \E ts \in Timestamps, lv \in Levels : logdb.seq < MaxQueried /\ InsertLog(ts, lv)
  \/ \E p \in Pages, n \in PageSizes, l \in LevelFilters, s \in SinceFilters,
        b \in Builds : QueryLogs(p, n, l, s, b)

SpecQuery == InitLogs /\ [][NextQuery]_vars

\* ---------------------------------------------------------------- claims
Pending == WithStatus(status, "Pending")

NumDownloading == Cardinality(WithStatus(status, "Downloading"))

RECURSIVE CountIn(_, _)
CountIn(S, b) ==
  IF S = {} THEN 0
  ELSE LET e == CHOOSE x \in S : TRUE IN CopiesIn(e, b) + CountIn(S \ {e}, b)

\* The supervisors of job j that are running its subprocess.
Running(j) ==
  CountIn({s \in BagToSet(sups) : s.job = j /\ s.pc = "running"}, sups)

\* No command and no terminal transition is under way.
Quiescent ==
  /\ retries = EmptyBag
  /\ \A s \in BagToSet(sups) : s.pc = "running"

\* C1: over submit, retry and complete operations in any interleaving, the
\* number of jobs stored as Downloading never exceeds the concurrency limit.
C1_DownloadingWithinLimit == NumDownloading <= capacity

C1_Witness ==
  /\ NumDownloading = capacity
  /\ Pending # {}
  /\ \E r \in BagToSet(retries) : r.pc = "acquire"

\* C2: whenever nothing is under way, the slots held are as many as the
\* jobs stored as Downloading.
C2_SlotPerDownloading == Quiescent => held = NumDownloading

\* C3: the guard of a faulted supervisor releases its slot, and its
\* next-admission call admits the oldest Pending job if the gate has room,
\* so that no Pending job is left waiting beside a free slot.
C3_GuardReleasesAndAdmits ==
  [][\A s \in BagToSet(sups) :
       /\ GuardRelease(s) => (held' = held - 1 \/ (held = 0 /\ held' = 0))
       /\ GuardAdmit(s) =>
            /\ (held < capacity /\ Pending # {}) =>
                 (status'[Min(Pending)] = "Downloading" /\ held' > held)
            /\ ~(held' < capacity' /\ WithStatus(status', "Pending") # {})]_vars

C3_Witness ==
  \E s \in BagToSet(sups) :
    s.pc = "guard_released" /\ held < capacity /\ Pending # {}

\* C4: the guard of a faulted supervisor stores Failed for a job that is not
\* terminal yet.
C4_GuardStoresFailed ==
  [][\A s \in BagToSet(sups) :
       (GuardRelease(s) /\ status[s.job] \notin Terminal)
         => status'[s.job] = "Failed"]_vars

\* C5: retry of a job that is Completed or Downloading leaves its status as
\* it is.
C5_RetryOfLiveJobIsNoOp ==
  [][\A r \in BagToSet(retries) :
       (RetryReset(r) /\ status[r.job] \in {"Completed", "Downloading"})
         => status'[r.job] = status[r.job]]_vars

\* C6: retry of a Failed or Cancelled job stores Pending for that job; with a
\* free slot it takes the slot, stores Downloading and starts a supervisor
\* for the same job; with no free slot it leaves the job as it is; no step of
\* it adds or removes a row.
C6_RetryRearms ==
  [][\A r \in BagToSet(retries) :
       /\ (RetryReset(r) /\ status[r.job] \in {"Failed", "Cancelled"})
            => status'[r.job] = "Pending"
       /\ (RetryAcquire(r) /\ r.rearm /\ held < capacity)
            => (held' = held + 1 /\ status' = status
                /\ [r EXCEPT !.pc = "mark"] \in BagToSet(retries'))
       /\ (RetryAcquire(r) /\ r.rearm /\ held >= capacity)
            => (held' = held /\ status' = status /\ sups' = sups
                /\ [r EXCEPT !.pc = "Ok"] \in BagToSet(retries'))
       /\ (RetryMark(r) /\ r.rearm)
            => (status'[r.job] = "Downloading"
                /\ Running(r.job)' = Running(r.job) + 1
                /\ held' = held)
       /\ (RetryReset(r) \/ RetryAcquire(r) \/ RetryMark(r))
            => (Rows(status') = Rows(status) /\ nextId' = nextId)]_vars

C6_Witness ==
  \E r \in BagToSet(retries) :
    /\ r.pc = "Ok"
    /\ r.rearm
    /\ status[r.job] = "Downloading"
    /\ Running(r.job) = 1

\* C7: retry of an id that has no row ends in NotFound; no status changes, no
\* slot is taken and no supervisor is started.
C7_RetryUnknownId ==
  [][/\ \A j \in JobIds :
          (RetryGet(j) /\ status[j] = "None")
            => (/\ UNCHANGED <<status, held, sups, nextId>>
                /\ \E r \in BagToSet(retries') : r.job = j /\ r.pc = "NotFound")
     /\ \A r \in BagToSet(retries) :
          (r.pc = "NotFound" /\ RetryReturn(r))
            => UNCHANGED <<status, held, sups, nextId>>]_vars

C7_Witness ==
  \E r \in BagToSet(retries) : r.pc = "NotFound" /\ status[r.job] = "None"

\* C8: a retry that found its job Failed or Cancelled and has returned Ok
\* leaves the job with at most one running supervisor, whatever ran beside it.
C8_AdmittedAtMostOnce ==
  \A r \in BagToSet(retries) :
    (r.pc = "Ok" /\ r.rearm) => Running(r.job) <= 1

\* C9: after N submits and nothing else, N above the limit k, k jobs are
\* Downloading and N - k are Pending.
C9_SubmitFillsGate ==
  (onlySubmits /\ nextId - 1 > capacity)
    => /\ NumDownloading = capacity
       /\ Cardinality(Pending) = nextId - 1 - capacity

C9_Witness == onlySubmits /\ nextId - 1 > capacity /\ nextId - 1 = MaxJobs

\* C10: a Pending job never becomes Downloading while a job inserted before it
\* is Pending and stays Pending.
C10_FifoAdmission ==
  [][\A j \in JobIds :
       (status[j] = "Pending" /\ status'[j] = "Downloading")
         => \A i \in 1..(j - 1) :
              ~(status[i] = "Pending" /\ status'[i] = "Pending")]_vars

\* C11: an update_settings that raises the limit from k to k + 1 while k jobs
\* are Downloading (k slots held) and a job is Pending admits one more job in
\* that very step.
C11_RaiseAdmits ==
  [][\A n \in Limits :
       (/\ UpdateSettings(n)
        /\ n = capacity + 1
        /\ NumDownloading = capacity
        /\ held = capacity
        /\ Pending # {})
         => Cardinality(WithStatus(status', "Downloading")) = NumDownloading + 1]_vars

\* C12: the gate's capacity is at least 1 in every reachable state (a limit
\* below 1 is rejected and never stored).
C12_CapacityAtLeastOne == capacity >= 1

\* C13: once cancel_all has been called and every supervisor and command has
\* ended, no job is stored as Downloading and every job that was Downloading
\* at the call is Cancelled.
C13_CancelAllDrains ==
  (exiting /\ sups = EmptyBag /\ retries = EmptyBag)
    => /\ NumDownloading = 0
       /\ \A j \in atCancel : status[j] = "Cancelled"

\* C14: a terminal transition that goes through a recovery path has, when it
\* ends, performed exactly the four actions persist, release, emit, admit,
\* once each and in that order (the normal path of execute_download performs
\* TerminalActions as they stand).
C14_FourActionsInOrder ==
  [][\A s \in BagToSet(sups) :
       /\ BoundaryRecover(s) => s.log \o BoundaryActions = TerminalActions
       /\ GuardAdmit(s) => Append(s.log, GuardActions[2]) = TerminalActions]_vars

\* C15: the id counter never goes back, and a row that appears has an id at
\* or above the counter, hence above every id assigned before it, those of
\* deleted rows included.
C15_IdsNeverReused ==
  [][/\ nextId' >= nextId
     /\ \A j \in JobIds :
          (status[j] = "None" /\ status'[j] # "None")
            => (j >= nextId /\ j < nextId')]_vars

\* A job was inserted when an earlier row had been deleted, and it is not one
\* of the deleted ids.
C15_Witness == gone # {} /\ nextId - 1 \notin gone /\ status[nextId - 1] # "None"

\* C16: whenever nothing is under way, no job is Pending while the gate has a
\* free slot.
C16_NoPendingBesideFreeSlot == Quiescent => (Pending = {} \/ held >= capacity)

\* C17: a store update that fails during retry leaves every status as it was
\* and hands the error to the caller, and the failure of the mark as
\* Downloading gives back the slot taken just before it.
C17_StoreFailureKeepsNoSlot ==
  [][\A r \in BagToSet(retries) :
       /\ RetryResetFails(r)
            => (/\ status' = status
                /\ held' = held
                /\ [r EXCEPT !.pc = "StoreError"] \in BagToSet(retries'))
       /\ RetryMarkFails(r)
            => (/\ status' = status
                /\ held' = held - 1
                /\ [r EXCEPT !.pc = "StoreError"] \in BagToSet(retries'))]_vars

\* C18: the count of held slots is never negative, and a release leaves it at
\* zero when it is zero, the second release of a slot included.
C18_HeldNeverNegative == held >= 0

\* The guard has released a slot its job's own completion path had released
\* already, no other task or call is left and no slot is held: one of the
\* releases found the count at zero.
C18_Witness ==
  /\ held = 0
  /\ retries = EmptyBag
  /\ retryCalls = 1
  /\ \E s \in BagToSet(sups) :
       /\ sups = One(s)
       /\ s.pc = "guard_released"
       /\ s.log = <<"persist", "release", "release">>

\* C19: update_settings leaves the held slots, the stored statuses and the
\* supervisors alone, and no step takes a slot beyond the capacity in force:
\* after the limit is lowered below the slots held, none is granted until the
\* count has dropped below it.
C19_LimitChangeKeepsSlots ==
  [][/\ \A n \in Limits :
          UpdateSettings(n) => UNCHANGED <<held, status, sups>>
     /\ held' > held => (held < capacity /\ held' <= capacity)]_vars

\* The limit has been lowered below the slots held while a job waits.
C19_Witness ==
  /\ settingsCalls = 1
  /\ held > capacity
  /\ NumDownloading > capacity
  /\ Pending # {}
  /\ \A s \in BagToSet(sups) : s.pc = "running"

\* C20: cancel_all releases no slot and changes no stored status; it signals
\* the token of every running supervisor and ends none; a slot is given back
\* only by the terminal transition of a supervisor.
C20_CancelAllOnlySignals ==
  [][/\ CancelAll
          => /\ UNCHANGED <<held, status>>
             /\ \A s \in BagToSet(sups) :
                  s.pc = "running" => [s EXCEPT !.tok = TRUE] \in BagToSet(sups')
             /\ CountIn(BagToSet(sups'), sups') = CountIn(BagToSet(sups), sups)
     /\ held' < held => \E s \in BagToSet(sups) : SupFinish(s)]_vars

\* cancel_all has been called and the slots of the signalled supervisors are
\* still held.
C20_Witness ==
  /\ exiting
  /\ \E s \in BagToSet(sups) : s.pc = "running" /\ s.tok
  /\ held = CountIn(BagToSet(sups), sups)
  /\ held > 0

\* How many supervisors of the bag b work on job j having been spawned via v.
EvCount(b, j, v) == CountIn({s \in BagToSet(b) : s.job = j /\ s.via = v}, b)

\* C21: two runs given the same operations and subprocess outcomes have the
\* same stored statuses, the same held slots and the same supervisors at
\* work, whatever the state of the event channels of the second run.
C21_EventsDoNotInfluenceJobs ==
  /\ ev.A.st = ev.B.st
  /\ ev.A.h = ev.B.h
  /\ \A j \in JobIds, v \in {"sched", "retry"} :
       EvCount(ev.A.sp, j, v) = EvCount(ev.B.sp, j, v)

\* A send of the second run has failed, and a job retried on a channel runs
\* with no sink.
C21_Witness ==
  /\ ev.lost
  /\ \E s \in BagToSet(ev.B.sp) : s.via = "retry" /\ s.sink = "none"
  /\ \E j \in JobIds : ev.B.st[j] \in {"Completed", "Failed"}

\* C22: the closure of resolve_ytdlp_path answers the local binary of the
\* caller's directory when it exists and answers the probe, else the system
\* binary when that answers, else BinaryNotFound; a path once in the cell
\* stays there and is what every call returns from then on, whatever
\* directory it passes; a failure leaves the cell empty, and a call that
\* finds it empty probes again.
C22_ResolvePrefersLocalAndCaches ==
  [][/\ \A c \in 1..MaxCalls :
          /\ ResLocal(c) =>
               LET p == GetYtdlpPath(res.calls[c].dir)
               IN IF p \in res.exists /\ p \in res.works
                  THEN res'.cell = p /\ res'.calls[c].out = p
                  ELSE res'.cell = <<>> /\ res'.calls[c].pc = "system"
          /\ ResSystem(c) =>
               IF SystemPath \in res.works
               THEN res'.cell = SystemPath /\ res'.calls[c].out = SystemPath
               ELSE res'.cell = <<>> /\ res'.calls[c].out = BinaryNotFound
          /\ (res.calls[c].pc # "done" /\ res'.calls[c].pc = "done" /\ res.cell # <<>>)
               => res'.calls[c].out = res.cell
          /\ (\E d \in Dirs : ResCall(c, d)) /\ res.cell = <<>>
               => res'.calls[c].pc = "wait"
          /\ (ResAcquire(c) /\ res.cell = <<>>) => res'.calls[c].pc = "local"
     /\ res.cell # <<>> => res'.cell = res.cell]_vars

\* A resolution has failed, a later one has cached the local binary of d1,
\* and a call that passed d2, whose own local binary works, got that of d1.
C22_Witness ==
  \E a, b, c \in 1..MaxCalls :
    /\ res.calls[a].pc = "done" /\ res.calls[a].out = BinaryNotFound
    /\ res.calls[b].pc = "done" /\ res.calls[b].out = GetYtdlpPath("d1")
    /\ res.calls[c].pc = "done" /\ res.calls[c].dir = "d2"
    /\ res.calls[c].out = GetYtdlpPath("d1")
    /\ GetYtdlpPath("d2") \in res.works

\* C23: after cleanup_old_logs(max_age_days, max_entries) the table holds at
\* most max_entries entries, none older than the cutoff; the survivors are
\* the newest by (timestamp, id) of the entries within the cutoff; and the
\* number returned is the number of entries removed.
C23_CleanupKeepsNewest ==
  [][\A now \in Nows, d \in 0..MaxAgeDays, m \in 0..MaxLogs :
       CleanupOldLogs(now, d, m) =>
         LET cutoff == now - d * DayMs
             within == {r \in logdb.rows : r.timestamp >= cutoff}
             after == logdb'.rows
         IN /\ Cardinality(after) <= m
            /\ \A r \in after : r.timestamp >= cutoff
            /\ after \subseteq within
            /\ Cardinality(after) = Min({m, Cardinality(within)})
            /\ \A r \in after, q \in within \ after :
                 \/ r.timestamp > q.timestamp
                 \/ r.timestamp = q.timestamp /\ r.id > q.id
            /\ logdb'.ret.total_deleted =
                 Cardinality(logdb.rows) - Cardinality(after)]_vars

\* A cleanup has removed entries by age and by number and has left exactly
\* max_entries entries, one of them neither the first nor the last inserted.
C23_Witness ==
  /\ logdb.ret.op = "cleanup"
  /\ logdb.ret.deleted > 0
  /\ logdb.ret.total_deleted > logdb.ret.deleted
  /\ Cardinality(logdb.rows) = logdb.ret.max_entries
  /\ \E r \in logdb.rows : r.id < logdb.seq - 1 /\ r.id > 1

\* C24: query_logs answers page p with the entries at positions
\* p * page_size .. p * page_size + page_size - 1 of the matching entries in
\* the order timestamp descending, id descending, with page_size clamped to
\* 1..200 and total_count the number of matching entries, for every page.
C24_PagesAreExactSlices ==
  logdb.ret.op = "query" =>
    LET q == logdb.ret
        sorted == OrderBy(Matching(logdb.rows, q.request.level, q.request.since))
        size == q.page_size
        first == q.page[2] * size
    IN /\ q.outcome = "ok"
       /\ size \in 1..200
       /\ size = IF q.request.page_size < 1 THEN 1
                 ELSE IF q.request.page_size > 200 THEN 200
                 ELSE q.request.page_size
       /\ q.total_count = Len(sorted)
       /\ q.items = IF q.page[1] = 0
                    THEN [i \in 1..(Min({first + size, Len(sorted)}) - Min({first, Len(sorted)}))
                            |-> sorted[first + i]]
                    ELSE <<>>

====
